---- MODULE Spec2Model ----
(***************************************************************************)
(* Model of Deck-Primer-Automation.py: the TextBox word-wrap / auto-fit    *)
(* measurement (calculate_text_bb) and the page composition of             *)
(* create_image.                                                           *)
(*                                                                         *)
(* Conventions.                                                            *)
(*  - A Python string is a sequence of one-character strings.              *)
(*  - A font scale, a line spacing and a paragraph spacing are kept in     *)
(*    tenths (font_scale 3.5 is 35), so that the decrement of 0.5 is 5 and *)
(*    the arithmetic is exact.  Python's binary floating point can only    *)
(*    add further mismatches to the equality tests modelled here.          *)
(*  - Pixel quantities are integers, as in the program.                    *)
(***************************************************************************)
EXTENDS Integers, Sequences, FiniteSets, TLC

VARIABLES
    boxes,          \* TextBox objects by variable name: name -> record of fields
    call,           \* the calculate_text_bb activation in progress (or the last one)
    logs,           \* the log list the caller owns and passes
    default_logs,   \* the list bound to the default argument `logs = []`
    pc,             \* position of the caller (driver or create_image)
    series,         \* the configuration record being rendered
    canvas          \* what has been drawn on each face: face -> sequence of items

vars == <<boxes, call, logs, default_logs, pc, series, canvas>>

-----------------------------------------------------------------------------
(* Arithmetic of the host language and of the metrics backend.             *)

\* Python int(n / d) and C integer division: truncation toward zero (d > 0).
TruncDiv(n, d) == IF n >= 0 THEN n \div d ELSE -((-n) \div d)

\* math.ceil(n / d), d > 0.
CeilDiv(n, d) == -((-n) \div d)

\* cvRound(n / d), d > 0: round to nearest, ties to even (lrint).
cvRound(n, d) ==
    LET q == n \div d
        r == n - q * d
    IN  IF 2 * r < d THEN q
        ELSE IF 2 * r > d THEN q + 1
        ELSE IF q % 2 = 0 THEN q ELSE q + 1

\* font_width = math.ceil(font_scale * 3), the scale in tenths.
StrokeWidth(scale) == CeilDiv(3 * scale, 10)

Max(a, b) == IF a >= b THEN a ELSE b

-----------------------------------------------------------------------------
(* Strings.                                                                *)

NL == "\n"
SP == " "
BS == "\\"

\* '\p' in the source is the two characters backslash, p.
ParagraphMark == <<BS, "p">>

Drop(s, n) == IF n >= Len(s) THEN <<>> ELSE SubSeq(s, n + 1, Len(s))

\* The first position >= from at which sep occurs in s, or 0.
NextMatch(s, sep, from) ==
    LET at == { i \in from..(Len(s) - Len(sep) + 1) :
                  SubSeq(s, i, i + Len(sep) - 1) = sep }
    IN  IF at = {} THEN 0 ELSE CHOOSE i \in at : \A j \in at : i <= j

\* str.split(sep) for a non-empty separator: the pieces between the leftmost
\* non-overlapping occurrences, always at least one piece.
RECURSIVE SplitFrom(_, _, _)
SplitFrom(s, sep, from) ==
    LET i == NextMatch(s, sep, from)
    IN  IF i = 0 THEN << SubSeq(s, from, Len(s)) >>
        ELSE << SubSeq(s, from, i - 1) >> \o SplitFrom(s, sep, i + Len(sep))

Split(s, sep) == SplitFrom(s, sep, 1)

\* str.lstrip(): leading whitespace removed.
RECURSIVE LStrip(_)
LStrip(s) ==
    IF s # <<>> /\ s[1] \in {SP, NL} THEN LStrip(Drop(s, 1)) ELSE s

RECURSIVE Flatten(_)
Flatten(ss) == IF ss = <<>> THEN <<>> ELSE ss[1] \o Flatten(Drop(ss, 1))

-----------------------------------------------------------------------------
(* cv2.getTextSize for FONT_HERSHEY_SIMPLEX.                               *)
(* width  = cvRound(sum of glyph advances * scale + thickness)             *)
(* height = cvRound((cap_line + base_line) * scale + (thickness + 1) / 2)  *)
(* with cap_line + base_line = 21 and a C integer division.                *)

GlyphWidth(c) ==
    CASE c = " " -> 16
      [] c \in {",", ".", ":", ";"} -> 10
      [] c \in {"i", "l", "I"} -> 8
      [] c \in {"f", "t"} -> 12
      [] c = "r" -> 13
      [] c = BS -> 14
      [] c \in {"v", "y", "T"} -> 16
      [] c \in {"k", "s", "x", "z"} -> 17
      [] c \in {"c", "e"} -> 18
      [] c \in {"a", "b", "d", "g", "h", "n", "o", "p", "q", "u"} -> 19
      [] c \in {"S", "X", "Z"} -> 20
      [] c \in {"B", "C", "D", "G", "K", "P", "R"} -> 21
      [] c \in {"w", "H", "N", "O", "Q", "U"} -> 22
      [] c \in {"M", "W", "~"} -> 24
      [] c = "m" -> 30
      [] OTHER -> 18      \* readCheck: a character outside the table is drawn as '?'

\* The sum of the glyph advances of s[lo..hi].
RECURSIVE AdvanceOf(_, _, _)
AdvanceOf(s, lo, hi) ==
    IF lo > hi THEN 0
    ELSE IF lo = hi THEN GlyphWidth(s[lo])
    ELSE LET mid == (lo + hi) \div 2
         IN  AdvanceOf(s, lo, mid) + AdvanceOf(s, mid + 1, hi)

Advance(s) == AdvanceOf(s, 1, Len(s))

TextWidth(s, scale, thickness) == cvRound(Advance(s) * scale + 10 * thickness, 10)

TextHeight(scale, thickness) ==
    cvRound(21 * scale + 10 * TruncDiv(thickness + 1, 2), 10)

\* getTextSize(...)[0] = (width, height)
getTextSize(s, scale, thickness) ==
    <<TextWidth(s, scale, thickness), TextHeight(scale, thickness)>>

-----------------------------------------------------------------------------
(* class TextBox                                                           *)

\* TextBox.__init__: the required and optional attributes as given, the
\* calculated attributes zeroed.
TextBox(name, text, font_scale, font_width, font_color, left_margin, right_margin, line_spacing, paragraph_break, circle, paragraph_spacing, bold_words, delim, splitter) ==
    [ name |-> name, text |-> text,
      font_scale |-> font_scale, font_width |-> font_width,
      font_color |-> font_color,
      line_spacing |-> line_spacing,
      left_margin |-> left_margin, right_margin |-> right_margin,
      paragraph_break |-> paragraph_break, circle |-> circle,
      circle_size |-> 25, paragraph_spacing |-> paragraph_spacing,
      bold_words |-> bold_words, delim |-> delim, splitter |-> splitter,
      line_height |-> 0, height |-> 0, width |-> 0,
      bounding_box |-> <<0, 0>>, paragraphs |-> <<>> ]

\* The word as measured and emitted (ix is 1-based here, n = len(text_list)):
\* stripped, a leading space unless first, the splitter unless last when the
\* delimiter is not a space.
Decorate(word, ix, n, box) ==
    LET w0 == LStrip(word)
        w1 == IF ix # 1 THEN <<SP>> \o w0 ELSE w0
    IN  IF ix # n /\ box.delim # <<SP>> THEN w1 \o box.splitter ELSE w1

\* Mutant: the right margin is left out of the width test.
PackWord_IgnoresRightMargin(acc, word, box, image_width) ==
    LET word_size == getTextSize(word, box.font_scale, box.font_width)
    IN  IF acc.current_X + word_size[1] <= image_width
        THEN [ full_text |-> acc.full_text \o word,
               current_X |-> acc.current_X + word_size[1] ]
        ELSE [ full_text |-> acc.full_text \o <<NL>> \o Drop(word, 1),
               current_X |-> box.left_margin
                   + getTextSize(Drop(word, 1), box.font_scale, box.font_width)[1] ]

\* Mutant: the left margin, already in the running X, is taken off the
\* available width once more.
PackWord_CountsLeftMarginTwice(acc, word, box, image_width) ==
    LET word_size == getTextSize(word, box.font_scale, box.font_width)
    IN  IF acc.current_X + word_size[1]
             <= image_width - box.right_margin - box.left_margin
        THEN [ full_text |-> acc.full_text \o word,
               current_X |-> acc.current_X + word_size[1] ]
        ELSE [ full_text |-> acc.full_text \o <<NL>> \o Drop(word, 1),
               current_X |-> box.left_margin
                   + getTextSize(Drop(word, 1), box.font_scale, box.font_width)[1] ]

\* One iteration of the word loop: acc = [full_text, current_X].
PackWord(acc, word, box, image_width) ==
    LET word_size == getTextSize(word, box.font_scale, box.font_width)
    IN  IF acc.current_X + word_size[1] <= image_width - box.right_margin
        THEN [ full_text |-> acc.full_text \o word,
               current_X |-> acc.current_X + word_size[1] ]
        ELSE [ full_text |-> acc.full_text \o <<NL>> \o Drop(word, 1),
               current_X |-> box.left_margin
                   + getTextSize(Drop(word, 1), box.font_scale, box.font_width)[1] ]

RECURSIVE PackFrom(_, _, _, _, _)
PackFrom(text_list, ix, acc, box, image_width) ==
    IF ix > Len(text_list) THEN acc
    ELSE PackFrom(text_list, ix + 1,
                  PackWord(acc, Decorate(text_list[ix], ix, Len(text_list), box),
                           box, image_width),
                  box, image_width)

\* The body of `for paragraph_raw in paragraphs_raw`: the wrapped full_text.
\* box.left_margin is the margin already shifted for bullets.
WrapParagraph(paragraph_raw, box, image_width) ==
    PackFrom(Split(paragraph_raw, box.delim), 1,
             [full_text |-> <<>>, current_X |-> box.left_margin],
             box, image_width).full_text

\* The height one paragraph adds (i is 1-based): paragraph spacing unless
\* first, each line's height, line spacing between lines.
ParagraphHeight(i, paragraph, box, space_size) ==
    (IF i # 1
       THEN TruncDiv(space_size[2] * box.paragraph_spacing * box.line_spacing, 100)
       ELSE 0)
    + Len(paragraph) * TextHeight(box.font_scale, box.font_width)
    + (Len(paragraph) - 1) * TruncDiv(space_size[2] * box.line_spacing, 10)

RECURSIVE SumHeights(_, _, _, _)
SumHeights(paragraphs, i, box, space_size) ==
    IF i > Len(paragraphs) THEN 0
    ELSE ParagraphHeight(i, paragraphs[i], box, space_size)
         + SumHeights(paragraphs, i + 1, box, space_size)

RECURSIVE MaxLineWidth(_, _, _)
MaxLineWidth(lines, box, sofar) ==
    IF lines = <<>> THEN sofar
    ELSE MaxLineWidth(Drop(lines, 1), box,
             Max(sofar, TextWidth(lines[1], box.font_scale, box.font_width)))

\* calculate_text_bb up to and including the bounding box: the block with
\* line_height, left_margin, paragraphs, height, width and bounding_box as the
\* code leaves them.  height and width accumulate onto the values the block
\* already holds.
Measured(box, image_width) ==
    LET space_size == getTextSize(<<SP>>, box.font_scale, box.font_width)
        shifted == IF box.paragraph_break
                     THEN [box EXCEPT !.left_margin = @ + box.circle_size + space_size[1]]
                     ELSE box
        paragraphs_raw == IF box.paragraph_break
                            THEN Split(box.text, ParagraphMark)
                            ELSE <<box.text>>
        paragraphs == [ i \in 1..Len(paragraphs_raw) |->
                          Split(WrapParagraph(paragraphs_raw[i], shifted, image_width),
                                <<NL>>) ]
        height == box.height + SumHeights(paragraphs, 1, shifted, space_size)
        width == MaxLineWidth(Flatten(paragraphs), shifted, box.width)
    IN  [ shifted EXCEPT !.line_height = space_size[2],
                         !.paragraphs = paragraphs,
                         !.height = height,
                         !.width = width,
                         !.bounding_box = <<width + 100, height + 80>> ]

\* if self.font_scale == min_font_scale
AtMinimum(measured, min_font_scale) == measured.font_scale = min_font_scale

\* Mutant: the width of the bounding box compared instead of its height.
Exceeds_ComparesWidth(measured, max_bb_size) == measured.bounding_box[1] > max_bb_size

\* if self.bounding_box[1] > max_bb_size
Exceeds(measured, max_bb_size) == measured.bounding_box[2] > max_bb_size

\* Mutant: the downgrade leaves the scale as it is.
Downscaled_Stuck(scale) == scale

\* The scale after one downgrade: font_scale -= 0.5.
Downscaled(scale) == scale - 5

\* Mutant: the downgrade lowers the scale and keeps the old stroke width.
Downgrade_KeepsStroke(measured, original_left_margin) ==
    [ measured EXCEPT !.font_scale = Downscaled(@),
                      !.left_margin = original_left_margin,
                      !.height = 0,
                      !.width = 0 ]

\* The downgrade branch: scale, stroke width, the left margin the level was
\* entered with, and the accumulators reset.
Downgrade(measured, original_left_margin) ==
    [ measured EXCEPT !.font_scale = Downscaled(@),
                      !.font_width = StrokeWidth(Downscaled(measured.font_scale)),
                      !.left_margin = original_left_margin,
                      !.height = 0,
                      !.width = 0 ]

-----------------------------------------------------------------------------
(* One activation of calculate_text_bb per step.                           *)

\* Python's recursion limit, scaled down: a deeper recursion raises
\* RecursionError instead of returning.
RecursionLimit == 16

\* The list the running activation appends to: the caller's list at depth 0,
\* and the default-argument list in the recursive call, which passes no logs.
CurrentBox == boxes[call.box]
CurrentMeasured == Measured(CurrentBox, call.image_width)

AppendLog(entry) ==
    IF call.depth = 0
      THEN /\ logs' = Append(logs, entry)
           /\ UNCHANGED default_logs
      ELSE /\ default_logs' = Append(default_logs, entry)
           /\ UNCHANGED logs

\* if self.font_scale == min_font_scale: log and return.
MeasureReachedMin ==
    /\ call.status = "running"
    /\ LET m == CurrentMeasured IN
        /\ AtMinimum(m, call.min_font_scale)
        /\ boxes' = [boxes EXCEPT ![call.box] = m]
        /\ AppendLog(<<"Reached minimum font scale", m.name>>)
    /\ call' = [call EXCEPT !.status = "returned"]
    /\ UNCHANGED <<pc, series, canvas>>

\* if self.bounding_box[1] > max_bb_size: downscale and recurse.
MeasureDownscale ==
    /\ call.status = "running"
    /\ LET m == CurrentMeasured IN
        /\ ~AtMinimum(m, call.min_font_scale)
        /\ Exceeds(m, call.max_bb_size)
        /\ boxes' = [boxes EXCEPT ![call.box] = Downgrade(m, CurrentBox.left_margin)]
        /\ AppendLog(<<"Exceeded maximum bounding box", m.name,
                       Downscaled(m.font_scale)>>)
    /\ call' = [call EXCEPT !.depth = @ + 1,
                            !.status = IF call.depth + 1 >= RecursionLimit
                                         THEN "RecursionError" ELSE "running"]
    /\ UNCHANGED <<pc, series, canvas>>

\* Otherwise the block fits: return.
MeasureFits ==
    /\ call.status = "running"
    /\ LET m == CurrentMeasured IN
        /\ ~AtMinimum(m, call.min_font_scale)
        /\ ~Exceeds(m, call.max_bb_size)
        /\ boxes' = [boxes EXCEPT ![call.box] = m]
    /\ call' = [call EXCEPT !.status = "returned"]
    /\ UNCHANGED <<logs, default_logs, pc, series, canvas>>

\* A call of box.calculate_text_bb(image, max_bb_size, min_font_scale, logs = logs).
NewCall(box, image_width, max_bb_size, min_font_scale, scale, left_margin) ==
    [ status |-> "running", box |-> box, image_width |-> image_width,
      max_bb_size |-> max_bb_size, min_font_scale |-> min_font_scale,
      depth |-> 0, initial_scale |-> scale, initial_left_margin |-> left_margin ]

-----------------------------------------------------------------------------
(* Inputs.                                                                 *)

\* create_blank_image(resolution = (3288, 4488, 3)): shape[0], shape[1].
ImageHeight == 3288
ImageWidth == 4488

MaxTextLen == 3      \* characters of a plain text
MaxParaLen == 2      \* characters of each paragraph of a paragraph-mode text
MaxListLen == 3      \* characters of a ';'-delimited text

SeqsUpTo(S, n) == UNION { [1..k -> S] : k \in 0..n }

Hello == << "H","e","l","l","o"," ","w","o","r","l","d"," ",
            "t","h","i","s"," ","i","s"," ","a"," ","t","e","s","t" >>

PlainTexts == SeqsUpTo({"a", "m", SP}, MaxTextLen) \cup {Hello}
ParaTexts == { a \o ParagraphMark \o b : a, b \in SeqsUpTo({"a", SP}, MaxParaLen) }
                 \cup SeqsUpTo({"a", SP}, MaxParaLen)
ListTexts == SeqsUpTo({"a", ";", SP}, MaxListLen)

\* The three ways create_image configures a block: flowing text, bulleted
\* paragraphs, and the ';'-delimited list joined with ','.
Modes == {"plain", "para", "list"}
TextsOf(mode) ==
    CASE mode = "plain" -> PlainTexts
      [] mode = "para" -> ParaTexts
      [] mode = "list" -> ListTexts

Scales == {25, 32, 35}              \* initial font scales, in tenths
Floors == {25, 30}                  \* min_font_scale, in tenths
MaxBBs == {60, 140, 260}            \* max_bb_size
LeftMargins == {0, 20}

\* image width - right margin: narrow enough for the short texts to wrap, and
\* one width at which the six words of Hello break three to a line at scale 2.5.
LimitsOf(text) == IF text = Hello THEN {700} ELSE {100, 200}

NoSeries == [image_name |-> "none"]
BlankCanvas == [front |-> <<>>, back |-> <<>>]

\* A caller constructs one TextBox and measures it, passing its own log list.
Init ==
    \E mode \in Modes, scale \in Scales, floor \in Floors, max_bb \in MaxBBs,
       left \in LeftMargins :
      \E text \in TextsOf(mode) : \E limit \in LimitsOf(text) :
        /\ boxes = [ b \in {"tb"} |->
                       TextBox("tb", text, scale, StrokeWidth(scale), 255,
                               left, ImageWidth - limit, 12,
                               mode = "para", TRUE, 15, <<>>,
                               IF mode = "list" THEN <<";">> ELSE <<SP>>,
                               IF mode = "list" THEN <<",">> ELSE <<>>) ]
        /\ call = NewCall("tb", ImageWidth, max_bb, floor, scale, left)
        /\ logs = <<>>
        /\ default_logs = <<>>
        /\ pc = "measure"
        /\ series = NoSeries
        /\ canvas = BlankCanvas

Next ==
    \/ MeasureReachedMin
    \/ MeasureDownscale
    \/ MeasureFits

Spec == Init /\ [][Next]_vars

-----------------------------------------------------------------------------
(* create_image: one record rendered onto a front and a back face.         *)

QRCaption ==
    << "S", "c", "a", "n", " ", "t", "h", "e", " ", "Q", "R", " ", "c",
       "o", "d", "e", " ", "o", "n", " ", "t", "h", "e", " ", "r", "i",
       "g", "h", "t", " ", "t", "o", " ", "s", "e", "e", " ", "t", "h",
       "e", " ", "f", "u", "l", "l", " ", "d", "e", "c", "k", " ", "l",
       "i", "s", "t", " ", "o", "n", " ", "M", "o", "x", "f", "i", "e",
       "l", "d", ".", " ", "F", "o", "r", " ", "m", "o", "r", "e", " ",
       "i", "n", "f", "o", "r", "m", "a", "t", "i", "o", "n", ",", " ",
       "s", "e", "e", " ", "t", "h", "e", " ", "o", "t", "h", "e", "r",
       " ", "s", "i", "d", "e", " ", "o", "f", " ", "t", "h", "i", "s",
       " ", "c", "a", "r", "d", "." >>

PointsPrefixText == << "P", "o", "i", "n", "t", "s", ":", " " >>

\* Sixteen one-word paragraphs: a back body too tall for its face.
LongBody ==
    << "a", "\\", "p", "a", "\\", "p", "a", "\\", "p", "a", "\\", "p", "a",
       "\\", "p", "a", "\\", "p", "a", "\\", "p", "a", "\\", "p", "a", "\\",
       "p", "a", "\\", "p", "a", "\\", "p", "a", "\\", "p", "a", "\\", "p",
       "a", "\\", "p", "a", "\\", "p", "a" >>

\* The records rendered: validated configuration rows (validate_parameters
\* defaults unless varied here).
SeriesSet ==
    { [ image_name |-> "image_01",
        title_text |-> <<"a">>, points_text |-> points, summary_text |-> summary,
        back_title_text |-> <<"a">>, back_body_text |-> body,
        title_font_scale |-> 60, points_font_scale |-> points_scale,
        summary_font_scale |-> 35, back_title_font_scale |-> 60,
        back_body_font_scale |-> 35,
        title_font_color |-> 255, points_font_color |-> 220,
        summary_font_color |-> 180, back_title_font_color |-> 255,
        back_body_font_color |-> 180,
        title_line_spacing |-> 12, points_line_spacing |-> 12,
        summary_line_spacing |-> 12, back_title_line_spacing |-> 12,
        back_body_line_spacing |-> 11,
        top_margin |-> top, bot_margin |-> 400,
        left_margin |-> 400, right_margin |-> right,
        qr_size |-> 600, qr_offset |-> 75, line_break_spacing |-> 35,
        bullet_points |-> 1, bold_words |-> <<>>, paragraph_spacing |-> 15 ] :
      points \in { <<"a">>, <<"a", ";", "a", ";", "a">> },
      summary \in { <<"a">>, <<"a", " ", "a">> },
      body \in { <<"a">>, <<"a", BS, "p", "a">>, LongBody },
      points_scale \in {50, 55},
      top \in {400, 2300, 2500},
      right \in {400, 3400} }

\* TextBox(...) as create_image constructs its blocks: the optional
\* attributes at their defaults unless given.
PlainBox(name, text, scale, width, color, left, right, spacing, bold_words) ==
    TextBox(name, text, scale, width, color, left, right, spacing,
            FALSE, TRUE, 15, bold_words, <<SP>>, <<>>)

\* qr_image.shape after cv2.resize(qr_image, qr_size): a square of qr_size.
QRSide == series.qr_size

\* A block is added to the blocks constructed so far.
Construct(var, box) == boxes' = (var :> box) @@ boxes

\* Every stage but the first waits for the measure call before it to return.
At(stage) == pc = stage /\ call.status = "returned"

\* logs.append("Calculating bounding boxes ..."); summary_text = TextBox(...);
\* summary_text.calculate_text_bb(image_front, 1000, 2.5, logs = logs)
MeasureSummary ==
    /\ pc = "start"
    /\ Construct("summary_text",
          PlainBox("Summary Text", series.summary_text, series.summary_font_scale,
                   StrokeWidth(series.summary_font_scale),
                   series.summary_font_color, series.left_margin,
                   series.right_margin, series.summary_line_spacing,
                   Split(series.bold_words, <<";">>)))
    /\ logs' = Append(logs, <<"Calculating bounding boxes", series.image_name>>)
    /\ call' = NewCall("summary_text", ImageWidth, 1000, 25,
                       series.summary_font_scale, series.left_margin)
    /\ pc' = "qr_text"
    /\ UNCHANGED <<default_logs, series, canvas>>

\* The QR code is saved (save = True) and the caption measured beside it at
\* the summary's scale, which is also its floor.
MeasureQRText ==
    /\ At("qr_text")
    /\ Construct("qr_text",
          PlainBox("QR Text", QRCaption, boxes["summary_text"].font_scale,
                   boxes["summary_text"].font_width,
                   boxes["summary_text"].font_color, series.left_margin,
                   series.right_margin + series.qr_offset + QRSide,
                   series.summary_line_spacing, <<>>))
    /\ logs' = Append(logs, <<"Saving QR code", series.image_name>>)
    /\ call' = NewCall("qr_text", ImageWidth, 500, boxes["summary_text"].font_scale,
                       boxes["summary_text"].font_scale, series.left_margin)
    /\ pc' = "points_prefix"
    /\ UNCHANGED <<default_logs, series, canvas>>

MeasurePointsPrefix ==
    /\ At("points_prefix")
    /\ Construct("points_prefix",
          PlainBox("Points Prefix", PointsPrefixText, series.points_font_scale,
                   StrokeWidth(series.points_font_scale),
                   series.points_font_color, series.left_margin,
                   series.right_margin, series.points_line_spacing, <<>>))
    /\ call' = NewCall("points_prefix", ImageWidth, 200,
                       boxes["summary_text"].font_scale + 5,
                       series.points_font_scale, series.left_margin)
    /\ pc' = "points_text"
    /\ UNCHANGED <<logs, default_logs, series, canvas>>

MeasurePointsText ==
    /\ At("points_text")
    /\ Construct("points_text",
          TextBox("Points Text", series.points_text, series.points_font_scale,
                  StrokeWidth(series.points_font_scale),
                  series.points_font_color,
                  series.left_margin + boxes["points_prefix"].width,
                  series.right_margin, series.points_line_spacing,
                  FALSE, TRUE, 15, <<>>, <<";">>, <<",">>))
    /\ call' = NewCall("points_text", ImageWidth, 600,
                       boxes["summary_text"].font_scale + 5,
                       series.points_font_scale,
                       series.left_margin + boxes["points_prefix"].width)
    /\ pc' = "cross_field"
    /\ UNCHANGED <<logs, default_logs, series, canvas>>

\* if points_text.font_scale < points_prefix.font_scale: the prefix takes the
\* value's scale and stroke width and is measured again, the value's scale as
\* its floor.
CrossFieldPrefix ==
    /\ At("cross_field")
    /\ boxes["points_text"].font_scale < boxes["points_prefix"].font_scale
    /\ logs' = Append(logs, <<"points text is smaller than the points prefix",
                              series.image_name>>)
    /\ boxes' = [boxes EXCEPT
                   !["points_prefix"].font_scale = boxes["points_text"].font_scale,
                   !["points_prefix"].font_width = boxes["points_text"].font_width]
    /\ call' = NewCall("points_prefix", ImageWidth, 200,
                       boxes["points_text"].font_scale,
                       boxes["points_text"].font_scale,
                       boxes["points_prefix"].left_margin)
    /\ pc' = "cross_field_value"
    /\ UNCHANGED <<default_logs, series, canvas>>

\* points_text.left_margin = series.left_margin + points_prefix.width, and the
\* value is measured again, its own scale as its floor.
CrossFieldValue ==
    /\ At("cross_field_value")
    /\ boxes' = [boxes EXCEPT !["points_text"].left_margin =
                    series.left_margin + boxes["points_prefix"].width]
    /\ call' = NewCall("points_text", ImageWidth, 600,
                       boxes["points_text"].font_scale,
                       boxes["points_text"].font_scale,
                       series.left_margin + boxes["points_prefix"].width)
    /\ pc' = "title_text"
    /\ UNCHANGED <<logs, default_logs, series, canvas>>

\* The rule does not apply: straight on to the title.
CrossFieldSkip ==
    /\ At("cross_field")
    /\ ~(boxes["points_text"].font_scale < boxes["points_prefix"].font_scale)
    /\ pc' = "title_text"
    /\ UNCHANGED <<boxes, call, logs, default_logs, series, canvas>>

MeasureTitle ==
    /\ At("title_text")
    /\ Construct("title_text",
          PlainBox("Front Title", series.title_text, series.title_font_scale,
                   StrokeWidth(series.title_font_scale),
                   series.title_font_color, series.left_margin,
                   series.right_margin, series.title_line_spacing, <<>>))
    /\ call' = NewCall("title_text", ImageWidth, 280,
                       boxes["points_text"].font_scale + 5,
                       series.title_font_scale, series.left_margin)
    /\ pc' = "back_text"
    /\ UNCHANGED <<logs, default_logs, series, canvas>>

MeasureBackBody ==
    /\ At("back_text")
    /\ Construct("back_text",
          TextBox("Back Body Text", series.back_body_text,
                  series.back_body_font_scale,
                  StrokeWidth(series.back_body_font_scale),
                  series.back_body_font_color, series.left_margin,
                  series.right_margin, series.back_body_line_spacing,
                  TRUE, series.bullet_points = 1, series.paragraph_spacing,
                  Split(series.bold_words, <<";">>), <<SP>>, <<>>))
    /\ call' = NewCall("back_text", ImageWidth, 2400, 25,
                       series.back_body_font_scale, series.left_margin)
    /\ pc' = "back_title_text"
    /\ UNCHANGED <<logs, default_logs, series, canvas>>

MeasureBackTitle ==
    /\ At("back_title_text")
    /\ Construct("back_title_text",
          PlainBox("Back Title Text", series.back_title_text,
                   series.back_title_font_scale,
                   StrokeWidth(series.back_title_font_scale),
                   series.back_title_font_color, series.left_margin,
                   series.right_margin, series.back_title_line_spacing, <<>>))
    /\ call' = NewCall("back_title_text", ImageWidth, 280,
                       boxes["back_text"].font_scale + 10,
                       series.back_title_font_scale, series.left_margin)
    /\ pc' = "front"
    /\ UNCHANGED <<logs, default_logs, series, canvas>>

\* calculate_vertical_space: margins, separator spacing, QR height and
\* padding, plus bounding-box height and line height of every block.
RECURSIVE SumBlocks(_)
SumBlocks(text_boxes) ==
    IF text_boxes = <<>> THEN 0
    ELSE text_boxes[1].bounding_box[2] + text_boxes[1].line_height
           + SumBlocks(Drop(text_boxes, 1))

calculate_vertical_space(text_boxes, qr_height, top_margin, bot_margin, line_break_spacing, num_line_breaks, padding) ==
    top_margin + bot_margin + (num_line_breaks * line_break_spacing)
      + qr_height + padding + SumBlocks(text_boxes)

front_vertical_space ==
    calculate_vertical_space(
        <<boxes["title_text"], boxes["points_text"], boxes["summary_text"]>>,
        QRSide, series.top_margin, series.bot_margin,
        series.line_break_spacing, 2, 100)

back_vertical_space ==
    calculate_vertical_space(
        <<boxes["back_title_text"]>>, 0, series.top_margin, series.bot_margin,
        series.line_break_spacing, 1,
        boxes["back_text"].line_height + boxes["back_text"].height)

-----------------------------------------------------------------------------
(* TextBox.place_text                                                      *)

Tilde == "~"
Highlight == 255            \* font_color = (255, 255, 255)

\* \w of the regular expressions, over the characters of the texts used here.
WordChar(c) == c \notin {SP, NL, Tilde, BS, ".", ",", ";", ":"}

\* sep.join(ss)
RECURSIVE JoinWith(_, _)
JoinWith(ss, sep) ==
    IF ss = <<>> THEN <<>>
    ELSE IF Len(ss) = 1 THEN ss[1]
    ELSE ss[1] \o sep \o JoinWith(Drop(ss, 1), sep)

\* The position after the newlines that start at i.
RECURSIVE SkipNewlines(_, _)
SkipNewlines(s, i) ==
    IF i <= Len(s) /\ s[i] = NL THEN SkipNewlines(s, i + 1) ELSE i

\* re.match of a phrase pattern at position i of s: the words from the k-th
\* on, with one space between them (the phrase itself, gap "space") or any
\* number of newlines between them (phrase_split, '\n*', gap "newlines").
\* The position after the match, or 0.  The phrases are words of letters, so
\* every pattern character matches itself.
RECURSIVE MatchEnd(_, _, _, _, _)
MatchEnd(s, i, words, k, gap) ==
    LET e == i + Len(words[k])
    IN  IF e - 1 > Len(s) \/ SubSeq(s, i, e - 1) # words[k] THEN 0
        ELSE IF k = Len(words) THEN e
        ELSE LET g == IF gap = "newlines" THEN SkipNewlines(s, e)
                      ELSE IF e <= Len(s) /\ s[e] = SP THEN e + 1 ELSE 0
             IN  IF g = 0 THEN 0 ELSE MatchEnd(s, g, words, k + 1, gap)

\* re.sub(pattern, repl, s) from position i on: the leftmost non-overlapping
\* matches replaced; an empty match puts repl before the character and, at
\* the end of s, after the last one.
RECURSIVE SubFrom(_, _, _, _, _)
SubFrom(s, i, words, gap, repl) ==
    LET e == MatchEnd(s, i, words, 1, gap)
    IN  IF i > Len(s) THEN (IF e = i THEN repl ELSE <<>>)
        ELSE IF e = 0 THEN <<s[i]>> \o SubFrom(s, i + 1, words, gap, repl)
        ELSE IF e = i THEN repl \o <<s[i]>> \o SubFrom(s, i + 1, words, gap, repl)
        ELSE repl \o SubFrom(s, e, words, gap, repl)

\* The two substitutions made for one phrase: '~' before every word of the
\* phrase where it stands on one line, then where newlines separate its words.
MarkPhrase(paragraph, phrase) ==
    LET words == Split(phrase, <<SP>>)
        on_line == Split(SubFrom(JoinWith(paragraph, <<NL>>), 1, words, "space",
                                 <<Tilde>> \o JoinWith(words, <<SP, Tilde>>)),
                         <<NL>>)
    IN  Split(SubFrom(JoinWith(on_line, <<NL>>), 1, words, "newlines",
                      <<Tilde>> \o JoinWith(words, <<NL, Tilde>>)),
              <<NL>>)

\* for phrase in self.bold_words: the paragraph marked for each in turn.
RECURSIVE MarkBold(_, _, _)
MarkBold(paragraph, bold_words, k) ==
    IF k > Len(bold_words) THEN paragraph
    ELSE MarkBold(MarkPhrase(paragraph, bold_words[k]), bold_words, k + 1)

\* re.search(r'~\w+|\w+~', word) is not None
HasMarker(word) ==
    \E i \in 1..(Len(word) - 1) :
        \/ word[i] = Tilde /\ WordChar(word[i + 1])
        \/ WordChar(word[i]) /\ word[i + 1] = Tilde

\* re.sub(r'~', '', word)
Unmarked(word) == SelectSeq(word, LAMBDA c : c # Tilde)

\* The words of one line drawn left to right from current_X (k is 1-based):
\* a marked word loses its '~' and takes the highlight colour, every word but
\* the first gets its space back.
RECURSIVE PutWords(_, _, _, _, _, _, _, _)
PutWords(words, k, current_X, current_Y, box, bold, i, j) ==
    IF k > Len(words) THEN <<>>
    ELSE LET marked == bold /\ HasMarker(words[k])
             bare == IF marked THEN Unmarked(words[k]) ELSE words[k]
             word == IF k # 1 THEN <<SP>> \o bare ELSE bare
         IN  << [ word |-> word, x |-> current_X, y |-> current_Y,
                  font_color |-> IF marked THEN Highlight ELSE box.font_color,
                  paragraph |-> i, line |-> j ] >>
             \o PutWords(words, k + 1,
                         current_X + TextWidth(word, box.font_scale, box.font_width),
                         current_Y, box, bold, i, j)

\* current_Y += int(word_size[1] * (1 + self.line_spacing)) between lines.
LineStep(box) ==
    TruncDiv(TextHeight(box.font_scale, box.font_width) * (10 + box.line_spacing), 10)

\* current_Y += int((1 + paragraph_spacing * line_spacing) * space_size[1])
ParagraphStep(box) ==
    TruncDiv((100 + box.paragraph_spacing * box.line_spacing)
               * TextHeight(box.font_scale, box.font_width), 100)

\* The lines of one paragraph drawn from current_Y down (j is 1-based).
RECURSIVE PutLines(_, _, _, _, _, _, _, _, _)
PutLines(paragraph, j, x_left, current_Y, box, image_width, centered, bold, i) ==
    IF j > Len(paragraph) THEN <<>>
    ELSE LET current_X ==
                 IF centered
                   THEN TruncDiv(image_width
                                   - TextWidth(paragraph[j], box.font_scale,
                                               box.font_width), 2)
                   ELSE x_left
         IN  PutWords(Split(paragraph[j], <<SP>>), 1, current_X, current_Y,
                      box, bold, i, j)
             \o PutLines(paragraph, j + 1, x_left, current_Y + LineStep(box),
                         box, image_width, centered, bold, i)

\* The paragraph as drawn: with the bold markers when bold is set.
MarkedParagraph(box, i, bold) ==
    IF bold THEN MarkBold(box.paragraphs[i], box.bold_words, 1)
    ELSE box.paragraphs[i]

\* current_Y where the i-th paragraph starts (i is 1-based).
RECURSIVE ParagraphY(_, _, _, _)
ParagraphY(box, i, y, bold) ==
    IF i = 1 THEN y + TruncDiv(box.bounding_box[2] - box.height, 2)
    ELSE ParagraphY(box, i - 1, y, bold)
           + (Len(MarkedParagraph(box, i - 1, bold)) - 1) * LineStep(box)
           + ParagraphStep(box)

\* place_text(image, x, y, centered = ..., bold = ...): the putText calls and
\* bullet circles in drawing order, the number of lines drawn per paragraph,
\* and the value returned.
place_text(box, image_width, x, y, centered, bold) ==
    LET space_size == getTextSize(<<SP>>, box.font_scale, box.font_width)
        bullets == box.paragraph_break /\ box.circle
        x_left == IF bullets THEN x + box.circle_size + space_size[1] ELSE x
        n == Len(box.paragraphs)
    IN  [ puts |-> Flatten([ i \in 1..n |->
                    PutLines(MarkedParagraph(box, i, bold), 1, x_left,
                             ParagraphY(box, i, y, bold), box, image_width,
                             centered, bold, i) ]),
          circles |-> IF bullets
                        THEN [ i \in 1..n |->
                                 [ x |-> x,
                                   y |-> ParagraphY(box, i, y, bold)
                                           - TruncDiv(space_size[2], 2) ] ]
                        ELSE <<>>,
          lines |-> [ i \in 1..n |-> Len(MarkedParagraph(box, i, bold)) ],
          result |-> y + box.bounding_box[2] ]

\* What place_text, place_line and place_qr leave on a canvas.
PlacedText(var, x, y, centered, bold) ==
    LET placed == place_text(boxes[var], ImageWidth, x, y, centered, bold)
    IN  [kind |-> "text", box |-> var, x |-> x, y |-> y,
         centered |-> centered, bold |-> bold,
         puts |-> placed.puts, circles |-> placed.circles,
         lines |-> placed.lines, bottom |-> placed.result]

PlacedLine(x_1, x_2, y) == [kind |-> "line", x_1 |-> x_1, x_2 |-> x_2, y |-> y]

\* place_qr(image, qr, x, y, padding = 200): the rows y + 100 .. y + 100 + side.
PlacedQR(x, y) ==
    [kind |-> "qr", x |-> x, y |-> y + TruncDiv(200, 2),
     right |-> x + QRSide, bottom |-> y + TruncDiv(200, 2) + QRSide]

\* The front face, when it passes the vertical budget.
FrontItems ==
    LET title == boxes["title_text"]
        points == boxes["points_text"]
        summary == boxes["summary_text"]
        caption == boxes["qr_text"]
        title_text_Y == series.top_margin + title.line_height
        title_points_line_Y ==
            title_text_Y + title.bounding_box[2] - series.line_break_spacing
        points_text_Y ==
            title_points_line_Y + (2 * series.line_break_spacing) + points.line_height
        summary_text_Y == points_text_Y + points.bounding_box[2] + summary.line_height
        summary_qr_line_Y ==
            summary_text_Y + summary.bounding_box[2] + series.line_break_spacing
        qr == PlacedQR(ImageWidth - series.right_margin - QRSide, summary_qr_line_Y)
    IN  << PlacedText("title_text", series.left_margin, title_text_Y, TRUE, FALSE),
           PlacedLine(series.left_margin - 50, ImageWidth - series.right_margin + 50,
                      title_points_line_Y),
           PlacedText("points_prefix", series.left_margin, points_text_Y, FALSE, FALSE),
           PlacedText("points_text",
                      series.left_margin + boxes["points_prefix"].width,
                      points_text_Y, FALSE, FALSE),
           PlacedText("summary_text", series.left_margin, summary_text_Y, FALSE, TRUE),
           PlacedLine(series.left_margin - 50, ImageWidth - series.right_margin + 50,
                      summary_qr_line_Y),
           qr,
           PlacedText("qr_text", series.left_margin,
                      qr.bottom - caption.bounding_box[2]
                        + TruncDiv(caption.bounding_box[2] - caption.height, 2),
                      FALSE, FALSE) >>

\* The back face, when it passes the vertical budget.
BackItems ==
    LET back_title == boxes["back_title_text"]
        back_title_text_Y == series.top_margin + back_title.line_height
        back_title_body_line_Y ==
            back_title_text_Y + back_title.bounding_box[2] - series.line_break_spacing
        back_body_text_Y ==
            back_title_body_line_Y + (2 * series.line_break_spacing)
              + boxes["back_text"].line_height
    IN  << PlacedText("back_title_text", series.left_margin, back_title_text_Y,
                      TRUE, FALSE),
           PlacedLine(series.left_margin - 50, ImageWidth - series.right_margin + 50,
                      back_title_body_line_Y),
           PlacedText("back_text", series.left_margin, back_body_text_Y, FALSE, TRUE) >>

\* Mutant: the front face is tested against the back face's budget.
FrontFits_UsesBack == ImageHeight - back_vertical_space >= 0

\* if (image_front.shape[0] - front_vertical_space) >= 0
FrontFits == ImageHeight - front_vertical_space >= 0

\* if (image_back.shape[0] - back_vertical_space) >= 0
BackFits == ImageHeight - back_vertical_space >= 0

\* Write text to front image, or log that it uses too much vertical space.
ComposeFront ==
    /\ At("front")
    /\ IF FrontFits
         THEN /\ canvas' = [canvas EXCEPT !.front = @ \o FrontItems]
              /\ UNCHANGED logs
         ELSE /\ logs' = Append(logs, <<"Front text uses too much vertical space",
                                        series.image_name>>)
              /\ UNCHANGED canvas
    /\ pc' = "back"
    /\ UNCHANGED <<boxes, call, default_logs, series>>

\* Write text to back image, or log that it uses too much vertical space.
ComposeBack ==
    /\ At("back")
    /\ IF BackFits
         THEN /\ canvas' = [canvas EXCEPT !.back = @ \o BackItems]
              /\ UNCHANGED logs
         ELSE /\ logs' = Append(logs, <<"Back text uses too much vertical space">>)
              /\ UNCHANGED canvas
    /\ pc' = "save"
    /\ UNCHANGED <<boxes, call, default_logs, series>>

\* if save: logs.append('Saving ...'); the images are written and returned.
SaveImages ==
    /\ At("save")
    /\ logs' = Append(logs, <<"Saving", series.image_name>>)
    /\ pc' = "done"
    /\ UNCHANGED <<boxes, call, default_logs, series, canvas>>

NoCall ==
    [ status |-> "none", box |-> "none", image_width |-> ImageWidth,
      max_bb_size |-> 0, min_font_scale |-> 0, depth |-> 0,
      initial_scale |-> 0, initial_left_margin |-> 0 ]

\* create_image(series, logs = logs) entered with a fresh log list.
InitImage ==
    /\ series \in SeriesSet
    /\ boxes = <<>>
    /\ call = NoCall
    /\ logs = <<>>
    /\ default_logs = <<>>
    /\ pc = "start"
    /\ canvas = BlankCanvas

NextImage ==
    \/ MeasureSummary
    \/ MeasureQRText
    \/ MeasurePointsPrefix
    \/ MeasurePointsText
    \/ CrossFieldPrefix
    \/ CrossFieldValue
    \/ CrossFieldSkip
    \/ MeasureTitle
    \/ MeasureBackBody
    \/ MeasureBackTitle
    \/ ComposeFront
    \/ ComposeBack
    \/ SaveImages
    \/ MeasureReachedMin
    \/ MeasureDownscale
    \/ MeasureFits

SpecImage == InitImage /\ [][NextImage]_vars

-----------------------------------------------------------------------------
(* One block measured and then placed with bold markup.                    *)

MaxPlaceLen == 5     \* characters of a placed text
MaxPlaceParaLen == 2 \* characters of each paragraph of a placed bulleted text

PlaceTexts(mode) ==
    IF mode = "para"
      THEN { a \o ParagraphMark \o b :
               a, b \in SeqsUpTo({"a", "b", SP}, MaxPlaceParaLen) }
      ELSE SeqsUpTo({"a", "b", SP}, MaxPlaceLen)

\* The bold_words field of a record: empty, one word, two and three words,
\* and two phrases.
BoldFields ==
    { <<>>, <<"b">>, <<"a", SP, "b">>, <<"a", SP, "b", SP, "a">>,
      <<"b", ";", "a", SP, "b">> }

PlaceLeft == 400               \* left margin, and the x the block is placed at
PlaceLimit == PlaceLeft + 200  \* image width - right margin: two short words a line
PlaceY == 450

\* A block as create_image builds summary_text and back_text: the bold_words
\* field split on ';', flowing text or bulleted paragraphs.
InitPlace ==
    \E mode \in {"plain", "para"}, field \in BoldFields, max_bb \in {60, 1000} :
      \E text \in PlaceTexts(mode) :
        /\ boxes = [ b \in {"tb"} |->
                       TextBox("tb", text, 30, StrokeWidth(30), 180,
                               PlaceLeft, ImageWidth - PlaceLimit, 12,
                               mode = "para", TRUE, 15, Split(field, <<";">>),
                               <<SP>>, <<>>) ]
        /\ call = NewCall("tb", ImageWidth, max_bb, 25, 30, PlaceLeft)
        /\ logs = <<>>
        /\ default_logs = <<>>
        /\ pc = "measure"
        /\ series = NoSeries
        /\ canvas = BlankCanvas

\* tb.place_text(image, left_margin, y, bold = True) once the measurement is over.
PlaceBlock ==
    /\ pc = "measure"
    /\ call.status = "returned"
    /\ canvas' = [canvas EXCEPT !.front =
                    << PlacedText("tb", PlaceLeft, PlaceY, FALSE, TRUE) >>]
    /\ pc' = "placed"
    /\ UNCHANGED <<boxes, call, logs, default_logs, series>>

NextPlace ==
    \/ MeasureReachedMin
    \/ MeasureDownscale
    \/ MeasureFits
    \/ PlaceBlock

SpecPlace == InitPlace /\ [][NextPlace]_vars

-----------------------------------------------------------------------------
(* Claims about calculate_text_bb (measure).                               *)

Returned == call.status = "returned"
Limit == ImageWidth - CurrentBox.right_margin

\* C1 (as claimed): the scale changes only by decrements of 0.5, the number of
\* recursion steps is at most ceil((s0 - f) / 0.5), and the scale when the
\* measurement ends is >= f.
C1_FloorBoundsRecursion ==
    /\ CurrentBox.font_scale = call.initial_scale - 5 * call.depth
    /\ call.depth <= Max(0, CeilDiv(call.initial_scale - call.min_font_scale, 5))
    /\ Returned => CurrentBox.font_scale >= call.min_font_scale

\* C2: when measure has returned, the bounding-box height is within
\* max_bb_size or the scale equals the minimum scale.
C2_FitsOrAtFloor ==
    Returned =>
        \/ CurrentBox.bounding_box[2] <= call.max_bb_size
        \/ CurrentBox.font_scale = call.min_font_scale

\* C2 witness: a measurement that ended on the floor after downgrades, its
\* bounding box still too high.
C2_Witness ==
    /\ Returned
    /\ call.depth >= 1
    /\ CurrentBox.font_scale = call.min_font_scale
    /\ CurrentBox.bounding_box[2] > call.max_bb_size

-----------------------------------------------------------------------------
(* Claims about the word wrap.                                             *)

\* The raw paragraphs of the measured block and their words as the loop
\* measures and emits them.
RawParagraphs ==
    IF CurrentBox.paragraph_break
      THEN Split(CurrentBox.text, ParagraphMark)
      ELSE <<CurrentBox.text>>

WordsOf(i) ==
    LET text_list == Split(RawParagraphs[i], CurrentBox.delim)
    IN  [ k \in 1..Len(text_list) |->
            Decorate(text_list[k], k, Len(text_list), CurrentBox) ]

WidthNow(s) == TextWidth(s, CurrentBox.font_scale, CurrentBox.font_width)

\* The lines a grouping of the words gives: B is the set of the words that
\* start a new line; such a word is emitted without its first character (the
\* leading space of every word but the first of the paragraph).  Each line
\* carries the number of words on it.
RECURSIVE Regroup(_, _, _, _)
Regroup(words, k, B, lines) ==
    IF k > Len(words) THEN lines
    ELSE Regroup(words, k + 1, B,
            IF k \in B
              THEN Append(lines, [text |-> Drop(words[k], 1), count |-> 1])
              ELSE [lines EXCEPT ![Len(lines)] =
                       [text |-> @.text \o words[k], count |-> @.count + 1]])

Grouping(words, B) == Regroup(words, 1, B, <<[text |-> <<>>, count |-> 0]>>)

LinesOf(grouping) == [ j \in 1..Len(grouping) |-> grouping[j].text ]

\* The running X after the first k words under the grouping B.
RECURSIVE RunX(_, _, _)
RunX(words, B, k) ==
    IF k = 0 THEN CurrentBox.left_margin
    ELSE IF k \in B THEN CurrentBox.left_margin + WidthNow(Drop(words[k], 1))
    ELSE RunX(words, B, k - 1) + WidthNow(words[k])

\* C4: after measure no word is split across two lines (every line is made of
\* whole consecutive words of its paragraph), and the measured width of every
\* line is <= canvas_width - right_margin unless the line consists of a single
\* word; a line of several words even ends, from the left margin, within it.
C4_WholeWordsWithinWidth ==
    Returned =>
        \A i \in 1..Len(CurrentBox.paragraphs) :
            \E B \in SUBSET (1..Len(WordsOf(i))) :
                LET g == Grouping(WordsOf(i), B) IN
                    /\ LinesOf(g) = CurrentBox.paragraphs[i]
                    /\ \A j \in 1..Len(g) :
                          /\ g[j].count = 1 \/ WidthNow(g[j].text) <= Limit
                          /\ g[j].count >= 2 =>
                                CurrentBox.left_margin + WidthNow(g[j].text) <= Limit

\* C4 witness: the six words of Hello wrapped over several lines.
C4_Witness ==
    /\ Returned
    /\ CurrentBox.text = Hello
    /\ Len(CurrentBox.paragraphs[1]) >= 2

\* C5 (as claimed): the words of the wrapped lines of a paragraph, in order,
\* are the words of the paragraph.
C5_RoundTrip ==
    Returned /\ CurrentBox.delim = <<SP>> =>
        \A i \in 1..Len(CurrentBox.paragraphs) :
            Flatten([ j \in 1..Len(CurrentBox.paragraphs[i]) |->
                        Split(CurrentBox.paragraphs[i][j], <<SP>>) ])
              = Split(RawParagraphs[i], <<SP>>)

\* The bullet shift and the running X of the single paragraph at the scale
\* the call was entered with.
StrokeAtStart == StrokeWidth(call.initial_scale)
LeftAtStart ==
    call.initial_left_margin
      + (IF CurrentBox.paragraph_break
           THEN CurrentBox.circle_size
                  + TextWidth(<<SP>>, call.initial_scale, StrokeAtStart)
           ELSE 0)

RECURSIVE SumWidthsAtStart(_, _)
SumWidthsAtStart(words, k) ==
    IF k = 0 THEN 0
    ELSE SumWidthsAtStart(words, k - 1)
           + TextWidth(words[k], call.initial_scale, StrokeAtStart)

OneLine ==
    /\ Len(CurrentBox.paragraphs) = 1
    /\ Len(CurrentBox.paragraphs[1]) = 1

\* C6 (as claimed): a text whose full width is shorter than the available
\* width is measured as one line at the scale it came with.
C6_ShortTextKeepsScale ==
    Returned /\ ~CurrentBox.paragraph_break /\ CurrentBox.delim = <<SP>>
      /\ call.initial_left_margin
           + TextWidth(CurrentBox.text, call.initial_scale, StrokeAtStart) <= Limit
      => OneLine /\ CurrentBox.font_scale = call.initial_scale

\* C6 (amended): a one-paragraph text whose words keep the running X (left
\* margin plus the separately measured widths of the words) within
\* canvas_width - right_margin is measured as one line, and the scale is not
\* decremented when that line's bounding-box height is within max_bb_size or
\* the scale is the minimum scale.
C6_FittingTextOneLine ==
    Returned /\ Len(RawParagraphs) = 1
      /\ LeftAtStart + SumWidthsAtStart(WordsOf(1), Len(WordsOf(1))) <= Limit
      => /\ OneLine
         /\ (\/ TextHeight(call.initial_scale, StrokeAtStart) + 80 <= call.max_bb_size
             \/ call.initial_scale = call.min_font_scale)
              => CurrentBox.font_scale = call.initial_scale

\* C6 witness: a text of two words that fits and kept its scale without being
\* on the floor.
C6_Witness ==
    /\ Returned /\ Len(RawParagraphs) = 1
    /\ Len(WordsOf(1)) >= 2
    /\ LeftAtStart + SumWidthsAtStart(WordsOf(1), Len(WordsOf(1))) <= Limit
    /\ OneLine
    /\ CurrentBox.font_scale = call.initial_scale
    /\ call.initial_scale # call.min_font_scale

HelloWord(k) == Decorate(Split(Hello, <<SP>>)[k], k, 6, CurrentBox)

\* The limit fits three words of Hello per line at the final scale.
ThreeWordsFit ==
    LET first == CurrentBox.left_margin + WidthNow(HelloWord(1))
                   + WidthNow(HelloWord(2)) + WidthNow(HelloWord(3))
        second == CurrentBox.left_margin + WidthNow(Drop(HelloWord(4), 1))
                   + WidthNow(HelloWord(5)) + WidthNow(HelloWord(6))
    IN  /\ first <= Limit
        /\ first + WidthNow(HelloWord(4)) > Limit
        /\ second <= Limit

\* C7: line breaking is greedy: a word starts a new line exactly when
\* appending it to the running X would pass canvas_width - right_margin; and
\* "Hello world this is a test" under a limit that fits three words per line
\* is wrapped as "Hello world this" / "is a test".
C7_GreedyLines ==
    Returned =>
        /\ \A i \in 1..Len(CurrentBox.paragraphs) :
              \E B \in SUBSET (1..Len(WordsOf(i))) :
                  /\ LinesOf(Grouping(WordsOf(i), B)) = CurrentBox.paragraphs[i]
                  /\ \A k \in 1..Len(WordsOf(i)) :
                        k \in B <=>
                          RunX(WordsOf(i), B, k - 1) + WidthNow(WordsOf(i)[k]) > Limit
        /\ CurrentBox.text = Hello /\ ThreeWordsFit =>
              CurrentBox.paragraphs =
                  << << SubSeq(Hello, 1, 16), SubSeq(Hello, 18, 26) >> >>

\* C7 witness: the scenario itself.
C7_Witness == Returned /\ CurrentBox.text = Hello /\ ThreeWordsFit

-----------------------------------------------------------------------------
(* Claims about the log and about create_image.                            *)

\* The entries one measure call owes its caller: one per downgrade, in order,
\* and one more when the call ended on the minimum scale.
ExpectedLog ==
    [ k \in 1..call.depth |->
        <<"Exceeded maximum bounding box", CurrentBox.name,
          call.initial_scale - 5 * k>> ]
    \o (IF CurrentBox.font_scale = call.min_font_scale
          THEN << <<"Reached minimum font scale", CurrentBox.name>> >>
          ELSE <<>>)

\* C10 (as claimed): the caller's log receives every diagnostic of the measure
\* call, at every recursion depth, and no other list receives any.
C10_CallerLogComplete ==
    /\ default_logs = <<>>
    /\ Returned => logs = ExpectedLog

Logged(entry) == \E i \in 1..Len(logs) : logs[i] = entry

FrontOverflowEntry == <<"Front text uses too much vertical space", series.image_name>>
BackOverflowEntry == <<"Back text uses too much vertical space">>

\* required_height = top_margin + bottom_margin + lines * spacing + padding
\*                   + sum of (bounding-box height + line height)
RequiredFront ==
    series.top_margin + series.bot_margin + 2 * series.line_break_spacing
      + (series.qr_size + 100)
      + (boxes["title_text"].bounding_box[2] + boxes["title_text"].line_height)
      + (boxes["points_text"].bounding_box[2] + boxes["points_text"].line_height)
      + (boxes["summary_text"].bounding_box[2] + boxes["summary_text"].line_height)

RequiredBack ==
    series.top_margin + series.bot_margin + series.line_break_spacing
      + (boxes["back_text"].line_height + boxes["back_text"].height)
      + (boxes["back_title_text"].bounding_box[2]
           + boxes["back_title_text"].line_height)

\* The blocks, separator lines and graphic drawn on a face, in drawing order.
Drawn(face) ==
    [ i \in 1..Len(canvas[face]) |->
        IF canvas[face][i].kind = "text" THEN canvas[face][i].box
        ELSE canvas[face][i].kind ]

FrontComposed == pc \in {"back", "save", "done"}
BackComposed == pc \in {"save", "done"}

\* C8: a face whose required height exceeds the canvas height gets nothing
\* drawn and an overflow entry naming it; any other face gets every block, and
\* no overflow entry.  Each face is decided on its own.
C8_OverflowSkipsFace ==
    /\ FrontComposed =>
          IF ImageHeight - RequiredFront < 0
            THEN canvas.front = <<>> /\ Logged(FrontOverflowEntry)
            ELSE /\ Drawn("front") = << "title_text", "line", "points_prefix",
                                        "points_text", "summary_text", "line",
                                        "qr", "qr_text" >>
                 /\ ~Logged(FrontOverflowEntry)
    /\ BackComposed =>
          IF ImageHeight - RequiredBack < 0
            THEN canvas.back = <<>> /\ Logged(BackOverflowEntry)
            ELSE /\ Drawn("back") = << "back_title_text", "line", "back_text" >>
                 /\ ~Logged(BackOverflowEntry)

\* C8 witness: the front face overflowed and the back face was drawn.
C8_Witness ==
    /\ pc = "done"
    /\ ImageHeight - RequiredFront < 0
    /\ ImageHeight - RequiredBack >= 0
    /\ Logged(FrontOverflowEntry)
    /\ canvas.back # <<>>

CrossFieldEntry ==
    <<"points text is smaller than the points prefix", series.image_name>>

\* C9 (as claimed): after the cross-field rule the prefix has the value's
\* scale and stroke width, its width is the measured width of the prefix text
\* at that scale, and the value's left margin is the record's left margin
\* plus that width.
C9_PrefixFollowsValue ==
    Logged(CrossFieldEntry) /\ pc # "cross_field_value"
      /\ (pc = "title_text" => call.status = "returned") =>
        /\ boxes["points_prefix"].font_scale = boxes["points_text"].font_scale
        /\ boxes["points_prefix"].font_width = boxes["points_text"].font_width
        /\ boxes["points_prefix"].width =
              TextWidth(PointsPrefixText, boxes["points_prefix"].font_scale,
                        boxes["points_prefix"].font_width)
        /\ boxes["points_text"].left_margin =
              series.left_margin + boxes["points_prefix"].width

-----------------------------------------------------------------------------
(* Claims about the blocks' fields through create_image.                   *)

\* C13: in every state of create_image, every block constructed so far has
\* the stroke width ceil(scale * 3) of its current scale: at construction,
\* after every downgrade, and after the cross-field rule has copied the
\* value's scale and stroke width onto the prefix.
C13_StrokeFollowsScale ==
    \A var \in DOMAIN boxes :
        boxes[var].font_width = StrokeWidth(boxes[var].font_scale)

\* The rule has been applied and both re-measurements are over: the prefix
\* is below the scale it was constructed with.
C13_Witness ==
    /\ pc = "done"
    /\ Logged(CrossFieldEntry)
    /\ boxes["points_prefix"].font_scale < series.points_font_scale
    /\ boxes["points_prefix"].font_width = StrokeWidth(boxes["points_text"].font_scale)

\* The step-5 figures of a block's current lines at its current scale.
HeightOfLines(box) ==
    SumHeights(box.paragraphs, 1, box,
               getTextSize(<<SP>>, box.font_scale, box.font_width))

WidthOfLines(box) == MaxLineWidth(Flatten(box.paragraphs), box, 0)

\* C14 (as claimed): once a measure call on a block is over, a second call on
\* an already measured block included, the block's height is the step-5 sum
\* over its current lines, its width the widest of its current lines, and
\* its bounding box (width + 100, height + 80).
C14_TotalsOfCurrentLines ==
    \A var \in DOMAIN boxes :
        (call.box = var => Returned) =>
            /\ boxes[var].height = HeightOfLines(boxes[var])
            /\ boxes[var].width = WidthOfLines(boxes[var])
            /\ boxes[var].bounding_box =
                  <<boxes[var].width + 100, boxes[var].height + 80>>

-----------------------------------------------------------------------------
(* Claims about the vertical budget.                                       *)

\* The Y coordinates of a face's elements, in the order they are drawn.
YsOf(items) == [ i \in 1..Len(items) |-> items[i].y ]

\* The front face top to bottom: title, separator, the points row (prefix
\* and value side by side), summary, separator, graphic.
FrontInOrder ==
    LET Y == YsOf(canvas.front)
    IN  /\ Y[1] < Y[2] /\ Y[2] < Y[3] /\ Y[3] = Y[4]
        /\ Y[4] < Y[5] /\ Y[5] < Y[6] /\ Y[6] < Y[7]

\* The back face top to bottom: title, separator, body.
BackInOrder ==
    LET Y == YsOf(canvas.back)
    IN  Y[1] < Y[2] /\ Y[2] < Y[3]

\* C15 (as claimed): on a face that passed the budget test the Y coordinates
\* are in the face's visual order and the bottom of its last element (the
\* graphic's bottom edge on the front, the value place_text returns for the
\* body on the back) is <= canvas_height - bottom_margin.
C15_BudgetSound ==
    /\ canvas.front # <<>> =>
          /\ FrontInOrder
          /\ canvas.front[7].bottom <= ImageHeight - series.bot_margin
    /\ canvas.back # <<>> =>
          /\ BackInOrder
          /\ canvas.back[3].bottom <= ImageHeight - series.bot_margin

-----------------------------------------------------------------------------
(* Claims about place_text.                                                *)

Placed == pc = "placed"
PlacedBlock == canvas.front[1]

\* The words of the i-th measured paragraph in reading order, and the same
\* paragraph as one line of text.
WordsOfParagraph(i) ==
    Flatten([ j \in 1..Len(boxes["tb"].paragraphs[i]) |->
                Split(boxes["tb"].paragraphs[i][j], <<SP>>) ])

TextOfParagraph(i) == JoinWith(WordsOfParagraph(i), <<SP>>)

\* The configured phrases; an empty field configures none.
Phrases == { boxes["tb"].bold_words[k] : k \in 1..Len(boxes["tb"].bold_words) }
             \ { <<>> }

\* The k-th word of paragraph i is one of the words of an occurrence of a
\* configured phrase, word for word.
InPhrase(i, k) ==
    LET words == WordsOfParagraph(i)
    IN  \E phrase \in Phrases :
          LET pw == Split(phrase, <<SP>>)
          IN  \E s \in 1..Len(words) :
                /\ s <= k /\ k < s + Len(pw)
                /\ s + Len(pw) - 1 <= Len(words)
                /\ \A t \in 1..Len(pw) : words[s + t - 1] = pw[t]

\* The characters of the k-th word of paragraph i overlap a place where a
\* configured phrase stands verbatim in the paragraph's text.
RECURSIVE StartOfWord(_, _)
StartOfWord(words, k) ==
    IF k = 1 THEN 1 ELSE StartOfWord(words, k - 1) + Len(words[k - 1]) + 1

TouchesPhrase(i, k) ==
    LET words == WordsOfParagraph(i)
        flat == TextOfParagraph(i)
        first == StartOfWord(words, k)
        last == first + Len(words[k]) - 1
    IN  \E phrase \in Phrases :
          \E p \in 1..(Len(flat) - Len(phrase) + 1) :
            /\ SubSeq(flat, p, p + Len(phrase) - 1) = phrase
            /\ p <= last /\ first <= p + Len(phrase) - 1

\* The putText calls made for paragraph i, in drawing order.
PutsOfParagraph(i) == SelectSeq(PlacedBlock.puts, LAMBDA put : put.paragraph = i)

\* C11 (as claimed): place_text with bold draws one word per word of the
\* text; every word of an occurrence of a configured phrase is drawn in the
\* highlight colour, and a word drawn in the highlight colour has at least a
\* part of a configured phrase in it; every other word keeps the block's colour.
C11_PhrasesHighlighted ==
    Placed =>
      \A i \in 1..Len(boxes["tb"].paragraphs) :
        LET puts == PutsOfParagraph(i)
        IN  /\ Len(puts) = Len(WordsOfParagraph(i))
            /\ \A k \in 1..Len(puts) :
                 /\ InPhrase(i, k) => puts[k].font_color = Highlight
                 /\ puts[k].font_color = Highlight => TouchesPhrase(i, k)
                 /\ puts[k].font_color \in {Highlight, boxes["tb"].font_color}

\* C12 (as claimed): place_text changes no field of the block, draws as many
\* paragraphs and as many lines per paragraph as the measurement left in
\* paragraphs, bold markup included, and returns y + bounding_box height.
C12_PlaceReadsOnly ==
    [][ (pc = "measure" /\ pc' = "placed") =>
          /\ boxes' = boxes
          /\ canvas'.front[1].lines =
               [ i \in 1..Len(boxes["tb"].paragraphs) |->
                   Len(boxes["tb"].paragraphs[i]) ]
          /\ canvas'.front[1].bottom =
               canvas'.front[1].y + boxes["tb"].bounding_box[2] ]_vars

====
